---- MODULE Spec2Model ----
(***************************************************************************)
(* A model of SQLAir.cpp: the select/update query engine over one CSV      *)
(* table with per-row mutexes and a table-level condition variable, the    *)
(* bounded-concurrency connection scheduler, and the lazily loading table  *)
(* registry.                                                               *)
(***************************************************************************)
EXTENDS Integers, Sequences, FiniteSets, TLC

\* ------------------------------------------------------------------------
\* Bounds and input sets
\* ------------------------------------------------------------------------

\* Number of rows of the table the query threads work on.
NumRows == 2

\* Query threads (each serves one request).
Threads == {"t1", "t2"}

NoThread == "none"

\* csv.getColumnNames(): the table's columns, in their defined order.
ColumnNames == <<"name", "age">>

NumCols == Len(ColumnNames)

Rows == 1..NumRows

\* Field values.
Val == {"a", "b"}

\* The table as loaded.
InitRows == [r \in Rows |-> IF r = 1 THEN <<"a", "a">> ELSE <<"b", "a">>]

\* Column lists a select is called with.
SelColLists == {<<"*">>, <<"name">>}

\* Column lists an update is called with ("zip" is not a column of the table).
UpdColLists == {<<"age">>, <<"*">>, <<"age", "zip">>}

\* Values lists an update is called with.
UpdValLists == {<<"a">>, <<"b">>, <<"b", "b">>}

\* whereColIdx: -1 (no predicate) or a 0-based column index.
WhereIdx == {-1, 0, 1}

Conds == {"="}

\* Connections that arrive at the server.
MaxConn == 4

\* runServer is called with maxThr in 1..MaxThrArg.
MaxThrArg == 2

Conns == 1..MaxConn

\* Identifiers of table sources: local files and a remote one.
RegIds == {"f.csv", "http://h/t.csv"}

\* fileOrURL.find("http://") == 0
RemoteIds == {"http://h/t.csv"}

\* What loadAndGet is called with: an identifier or the empty string.
LoadArgs == RegIds \cup {""}

\* Contents of a table (its rows, taken as a whole).
Data == {"d0", "d1"}

\* Contents of a file that std::ofstream has truncated and nothing was written to.
Truncated == "trunc"

\* ------------------------------------------------------------------------
\* State
\* ------------------------------------------------------------------------
VARIABLES
    rows,       \* csv: row -> field vector
    rowMutex,   \* row.rowMutex: row -> owning thread or NoThread
    csvMutex,   \* csv.csvMutex: owning thread or NoThread
    alive,      \* FALSE once undefined behaviour has ended the process
    pc,         \* thread -> position in selectQuery/updateQuery
    args,       \* thread -> arguments of its query
    idx,        \* thread -> row the scan is at (0: not scanning)
    wi,         \* thread -> position in colNames of the write loop (0: none)
    count,      \* thread -> count of the current scan
    toPrint,    \* thread -> lines collected by processSelectRow
    os,         \* thread -> what was written to the output stream
    wholeRows,  \* history: row -> field vectors left by complete writes
    tornCopy,   \* history: thread -> a copy it took was no whole row
    notified,   \* history: thread -> it called csvCondVar.notify_all
    lateMatch   \* history: thread -> a write made a row match after its first scan

VARIABLES
    maxThr,      \* runServer's parameter
    numThreads,  \* SQLAir::numThreads
    serverMutex, \* runServer's serverMutex is held (by runServer, its only user)
    sPc,         \* position of runServer
    accepted,    \* connections accepted so far; the last one is `client`
    wPc,         \* connection -> position of its serveClient thread
    regS,        \* the value runServer loaded for numThreads++
    regW,        \* connection -> the value its thread loaded for numThreads--
    lateNotify,  \* history: since the slot check failed, numThreads was
                 \* decremented ("decr") and then notify_one called ("notified")
    raced        \* history: a store to numThreads overwrote an update made
                 \* since its load

svars == <<maxThr, numThreads, serverMutex, sPc, accepted, wPc, regS, regW,
           lateNotify, raced>>

VARIABLES
    inMemoryCSV,    \* identifier -> contents of the resident table, or "absent"
    recentCSV,      \* the most recently used identifier
    recentCSVMutex, \* owning thread or NoThread
    disk,           \* identifier -> contents of the source
    lPc,            \* thread -> position in loadAndGet and after
    fileOrURL,      \* thread -> loadAndGet's parameter
    csvLocal,       \* thread -> loadAndGet's local `csv`
    calledWith,     \* history: thread -> the identifier loadAndGet was called with
    loadFailed      \* history: identifiers whose load threw and that no load
                    \* has inserted since

rvars == <<inMemoryCSV, recentCSV, recentCSVMutex, disk, lPc, fileOrURL, csvLocal,
           calledWith, loadFailed>>

qvars == <<rows, rowMutex, csvMutex, alive, pc, args, idx, wi, count, toPrint,
           os, wholeRows, tornCopy, notified, lateMatch>>

vars == <<qvars, svars, rvars>>

\* What the query engine's steps leave alone, the scheduler's, the registry's.
notQ == <<svars, rvars>>

notS == <<qvars, rvars>>

notR == <<qvars, svars>>

NoArgs == [op |-> "none", mustWait |-> FALSE, colNames |-> <<>>, values |-> <<>>,
           whereColIdx |-> -1, cond |-> "=", value |-> "a"]

NoOutput == [kind |-> "none", count |-> 0, lines |-> <<>>]

\* ------------------------------------------------------------------------
\* Helpers
\* ------------------------------------------------------------------------

\* CSV::getColumnIndex: the 0-based index of a column, -1 for an unknown name
\* (the lookup, or row.at() on its result, throws).
getColumnIndex(colName) ==
    IF \E k \in 1..NumCols : ColumnNames[k] = colName
    THEN (CHOOSE k \in 1..NumCols : ColumnNames[k] = colName) - 1
    ELSE -1

\* SQLAirBase::matches
matches(a, cond, b) == IF cond = "=" THEN a = b ELSE a # b

\* A test that takes every row, whatever the predicate.
RowMatchesAny(row, a) == TRUE

\* The "where" test of processSelectRow and processUpdateRow.
RowMatches(row, a) ==
    a.whereColIdx = -1 \/ matches(row[a.whereColIdx + 1], a.cond, a.value)

\* The "*" expansion of selectQuery and updateQuery.
ExpandCols(colNames) == IF colNames[1] = "*" THEN ColumnNames ELSE colNames

\* A row that is never found locked.
CanLockRowAlways(r) == TRUE

\* std::scoped_lock on row.rowMutex can be taken.
CanLockRow(r) == rowMutex[r] = NoThread

\* std::unique_lock on csv.csvMutex can be taken.
CanLockCsv == csvMutex = NoThread

\* A row mutex that stays locked after the loop body.
KeepRow(r) == rowMutex

\* The scoped_lock of processUpdateRow's loop body goes out of scope.
ReleaseRow(r) == [rowMutex EXCEPT ![r] = NoThread]

\* The lock of the wait loop's iteration goes out of scope.
ReleaseCsv(t) == IF csvMutex = t THEN NoThread ELSE csvMutex

\* A notification that only an update called without mustWait sends.
NotifyUnlessWaited(t) ==
    IF args[t].mustWait THEN {} ELSE {w \in Threads : pc[w] = "waiting"}

\* The threads suspended in csvCondVar.wait that notify_all wakes.
NotifyAll(t) == {w \in Threads : pc[w] = "waiting"}

\* A loop that is left after its first wait, whatever the second scan counted.
MustRetryOnce(t, c) == args[t].mustWait /\ c < 1 /\ csvMutex # t

\* if (mustWait && count < 1) { while (count < 1) ... } of selectQuery and
\* updateQuery: after any scan of a wait-mode query that counted no row, the
\* thread waits and scans again.
MustRetry(t, c) == args[t].mustWait /\ c < 1

\* Some row satisfies the predicate of thread t's query.
SomeRowMatches(rs, t) == \E r \in Rows : RowMatches(rs[r], args[t])

\* A thread is past its first scan and inside the wait loop.
InWaitLoop(t) == pc[t] \in {"lockcsv", "block", "waiting", "reacquire"}
                 \/ (pc[t] \in {"scan", "write"} /\ csvMutex = t)

\* ------------------------------------------------------------------------
\* The query engine: selectQuery, updateQuery
\* ------------------------------------------------------------------------

QInit ==
    /\ rows = InitRows
    /\ rowMutex = [r \in Rows |-> NoThread]
    /\ csvMutex = NoThread
    /\ alive = TRUE
    /\ pc = [t \in Threads |-> "idle"]
    /\ args = [t \in Threads |-> NoArgs]
    /\ idx = [t \in Threads |-> 0]
    /\ wi = [t \in Threads |-> 0]
    /\ count = [t \in Threads |-> 0]
    /\ toPrint = [t \in Threads |-> <<>>]
    /\ os = [t \in Threads |-> NoOutput]
    /\ wholeRows = [r \in Rows |-> {InitRows[r]}]
    /\ tornCopy = [t \in Threads |-> FALSE]
    /\ notified = [t \in Threads |-> FALSE]
    /\ lateMatch = [t \in Threads |-> FALSE]

\* selectQuery is called: "*" is expanded, the first scan starts.
CallSelect(t) ==
    /\ alive /\ pc[t] = "idle"
    /\ \E w \in BOOLEAN, cols \in SelColLists, wc \in WhereIdx, c \in Conds, v \in Val :
         args' = [args EXCEPT ![t] =
                    [op |-> "select", mustWait |-> w, colNames |-> ExpandCols(cols),
                     values |-> <<>>, whereColIdx |-> wc, cond |-> c, value |-> v]]
    /\ pc' = [pc EXCEPT ![t] = "scan"]
    /\ idx' = [idx EXCEPT ![t] = 1]
    /\ UNCHANGED <<rows, rowMutex, csvMutex, alive, wi, count, toPrint, os,
                   wholeRows, tornCopy, notified, lateMatch>>
    /\ UNCHANGED notQ

\* updateQuery is called: "*" is expanded, the first scan starts.
CallUpdate(t) ==
    /\ alive /\ pc[t] = "idle"
    /\ \E w \in BOOLEAN, cols \in UpdColLists, vals \in UpdValLists,
          wc \in WhereIdx, c \in Conds, v \in Val :
         args' = [args EXCEPT ![t] =
                    [op |-> "update", mustWait |-> w, colNames |-> ExpandCols(cols),
                     values |-> vals, whereColIdx |-> wc, cond |-> c, value |-> v]]
    /\ pc' = [pc EXCEPT ![t] = "scan"]
    /\ idx' = [idx EXCEPT ![t] = 1]
    /\ UNCHANGED <<rows, rowMutex, csvMutex, alive, wi, count, toPrint, os,
                   wholeRows, tornCopy, notified, lateMatch>>
    /\ UNCHANGED notQ

\* What follows the scan of the last row, with the scan's count c and lines out:
\* the wait loop is entered or repeated, or the query reports (an update that
\* counted rows notifies first).
EndScan(t, c, out) ==
    /\ csvMutex' = ReleaseCsv(t)
    /\ idx' = [idx EXCEPT ![t] = 0]
    /\ IF MustRetry(t, c)
       THEN /\ pc' = [pc EXCEPT ![t] = "lockcsv"]
            /\ count' = [count EXCEPT ![t] = c]
            /\ toPrint' = [toPrint EXCEPT ![t] = out]
            /\ os' = os
       ELSE IF args[t].op = "update" /\ c > 0
       THEN /\ pc' = [pc EXCEPT ![t] = "notify"]
            /\ count' = [count EXCEPT ![t] = c]
            /\ toPrint' = [toPrint EXCEPT ![t] = out]
            /\ os' = os
       ELSE /\ pc' = [pc EXCEPT ![t] = "done"]
            /\ count' = [count EXCEPT ![t] = c]
            /\ toPrint' = [toPrint EXCEPT ![t] = out]
            /\ os' = [os EXCEPT ![t] = [kind |-> "rows", count |-> c, lines |-> out]]

\* The scan moves to the next row, or ends after the last one.
Advance(t, c, out) ==
    IF idx[t] = NumRows
    THEN EndScan(t, c, out)
    ELSE /\ idx' = [idx EXCEPT ![t] = idx[t] + 1]
         /\ count' = [count EXCEPT ![t] = c]
         /\ toPrint' = [toPrint EXCEPT ![t] = out]
         /\ UNCHANGED <<pc, csvMutex, os>>

\* An exception leaves the query: the locks held are released by their guards,
\* serveClient catches it and writes "Error: ...".
Throw(t) ==
    /\ pc' = [pc EXCEPT ![t] = "error"]
    /\ csvMutex' = ReleaseCsv(t)
    /\ rowMutex' = [r \in Rows |-> IF rowMutex[r] = t THEN NoThread ELSE rowMutex[r]]
    /\ idx' = [idx EXCEPT ![t] = 0]
    /\ wi' = [wi EXCEPT ![t] = 0]
    /\ os' = [os EXCEPT ![t] = [kind |-> "error", count |-> 0, lines |-> <<>>]]

\* One iteration of processSelectRow's loop: copy the row under its mutex, then
\* test the copy and append its selected columns.
SelectRow(t) ==
    /\ alive /\ pc[t] = "scan" /\ args[t].op = "select"
    /\ LET r == idx[t]
           a == args[t]
           printRow == rows[r]
       IN /\ CanLockRow(r)
          /\ tornCopy' = [tornCopy EXCEPT ![t] =
                            @ \/ printRow \notin wholeRows[r] \/ Len(printRow) # NumCols]
          /\ IF RowMatches(printRow, a)
             THEN IF \E k \in 1..Len(a.colNames) : getColumnIndex(a.colNames[k]) = -1
                  THEN /\ Throw(t)
                       /\ UNCHANGED <<count, toPrint>>
                  ELSE /\ Advance(t, count[t] + 1,
                             Append(toPrint[t],
                                    [k \in 1..Len(a.colNames) |->
                                       printRow[getColumnIndex(a.colNames[k]) + 1]]))
                       /\ UNCHANGED <<rowMutex, wi>>
             ELSE /\ Advance(t, count[t], toPrint[t])
                  /\ UNCHANGED <<rowMutex, wi>>
    /\ UNCHANGED <<rows, alive, args, wholeRows, notified, lateMatch>>
    /\ UNCHANGED notQ

\* processUpdateRow takes the row's mutex and tests the row: a matching row is
\* kept locked for the writes, any other row is released at once.
UpdateRow(t) ==
    /\ alive /\ pc[t] = "scan" /\ args[t].op = "update"
    /\ LET r == idx[t]
       IN /\ CanLockRow(r)
          /\ IF RowMatches(rows[r], args[t])
             THEN /\ rowMutex' = [rowMutex EXCEPT ![r] = t]
                  /\ pc' = [pc EXCEPT ![t] = "write"]
                  /\ wi' = [wi EXCEPT ![t] = 1]
                  /\ UNCHANGED <<csvMutex, idx, count, toPrint, os>>
             ELSE /\ Advance(t, count[t], toPrint[t])
                  /\ UNCHANGED <<rowMutex, wi>>
    /\ UNCHANGED <<rows, alive, args, wholeRows, tornCopy, notified, lateMatch>>
    /\ UNCHANGED notQ

\* History: the threads in their wait loop for which the table rs, as an update
\* that counted a row leaves it, holds a matching row.
LateMatches(rs) ==
    [s \in Threads |-> lateMatch[s] \/ (InWaitLoop(s) /\ SomeRowMatches(rs, s))]

\* The field vector of row r after values[k] is stored in column c (0-based).
StoreField(r, c, v) == [rows EXCEPT ![r][c + 1] = v]

\* One iteration of the column loop: row.at(getColumnIndex(colNames[i])) =
\* values[i], under the row's mutex; after the last column the row is counted
\* and its mutex released. values[i] past the end of values is undefined
\* behaviour: any value is stored (WriteCol) or the process ends (Crash).
WriteCol(t) ==
    /\ alive /\ pc[t] = "write"
    /\ LET r == idx[t]
           a == args[t]
           k == wi[t]
           c == getColumnIndex(a.colNames[k])
       IN IF c = -1
          THEN /\ Throw(t)
               /\ UNCHANGED <<rows, count, toPrint, wholeRows, lateMatch>>
          ELSE \E v \in (IF k <= Len(a.values) THEN {a.values[k]} ELSE Val) :
                 /\ rows' = StoreField(r, c, v)
                 /\ IF k = Len(a.colNames)
                    THEN /\ rowMutex' = ReleaseRow(r)
                         /\ lateMatch' = LateMatches(rows')
                         /\ wi' = [wi EXCEPT ![t] = 0]
                         /\ wholeRows' = [wholeRows EXCEPT ![r] = @ \cup {rows'[r]}]
                         /\ IF idx[t] = NumRows
                            THEN EndScan(t, count[t] + 1, toPrint[t])
                            ELSE /\ idx' = [idx EXCEPT ![t] = idx[t] + 1]
                                 /\ count' = [count EXCEPT ![t] = count[t] + 1]
                                 /\ pc' = [pc EXCEPT ![t] = "scan"]
                                 /\ UNCHANGED <<csvMutex, toPrint, os>>
                    ELSE /\ wi' = [wi EXCEPT ![t] = k + 1]
                         /\ UNCHANGED <<rowMutex, csvMutex, pc, idx, count, toPrint,
                                        os, wholeRows, lateMatch>>
    /\ UNCHANGED <<alive, args, tornCopy, notified>>
    /\ UNCHANGED notQ

\* Reading values[i] past the end of values ends the process.
Crash(t) ==
    /\ alive /\ pc[t] = "write"
    /\ wi[t] > Len(args[t].values)
    /\ getColumnIndex(args[t].colNames[wi[t]]) # -1
    /\ alive' = FALSE
    /\ UNCHANGED <<rows, rowMutex, csvMutex, pc, args, idx, wi, count, toPrint, os,
                   wholeRows, tornCopy, notified, lateMatch>>
    /\ UNCHANGED notQ

\* std::unique_lock<std::mutex> lock(csv.csvMutex) at the top of the wait loop.
LockCsv(t) ==
    /\ alive /\ pc[t] = "lockcsv"
    /\ CanLockCsv
    /\ csvMutex' = t
    /\ pc' = [pc EXCEPT ![t] = "block"]
    /\ UNCHANGED <<rows, rowMutex, alive, args, idx, wi, count, toPrint, os,
                   wholeRows, tornCopy, notified, lateMatch>>
    /\ UNCHANGED notQ

\* csv.csvCondVar.wait(lock): the mutex is released and the thread suspended.
Wait(t) ==
    /\ alive /\ pc[t] = "block"
    /\ csvMutex' = NoThread
    /\ pc' = [pc EXCEPT ![t] = "waiting"]
    /\ UNCHANGED <<rows, rowMutex, alive, args, idx, wi, count, toPrint, os,
                   wholeRows, tornCopy, notified, lateMatch>>
    /\ UNCHANGED notQ

\* A spurious wake-up of csvCondVar.wait.
SpuriousWake(t) ==
    /\ alive /\ pc[t] = "waiting"
    /\ pc' = [pc EXCEPT ![t] = "reacquire"]
    /\ UNCHANGED <<rows, rowMutex, csvMutex, alive, args, idx, wi, count, toPrint,
                   os, wholeRows, tornCopy, notified, lateMatch>>
    /\ UNCHANGED notQ

\* A woken thread re-acquires csvMutex inside wait() and scans again.
Reacquire(t) ==
    /\ alive /\ pc[t] = "reacquire"
    /\ CanLockCsv
    /\ csvMutex' = t
    /\ pc' = [pc EXCEPT ![t] = "scan"]
    /\ idx' = [idx EXCEPT ![t] = 1]
    /\ UNCHANGED <<rows, rowMutex, alive, args, wi, count, toPrint, os,
                   wholeRows, tornCopy, notified, lateMatch>>
    /\ UNCHANGED notQ

\* updateQuery: if (count > 0) csv.csvCondVar.notify_all(), then the report.
Notify(t) ==
    /\ alive /\ pc[t] = "notify"
    /\ pc' = [s \in Threads |->
                IF s = t THEN "done"
                ELSE IF s \in NotifyAll(t) THEN "reacquire" ELSE pc[s]]
    /\ notified' = [notified EXCEPT ![t] = TRUE]
    /\ os' = [os EXCEPT ![t] = [kind |-> "rows", count |-> count[t], lines |-> <<>>]]
    /\ UNCHANGED <<rows, rowMutex, csvMutex, alive, args, idx, wi, count, toPrint,
                   wholeRows, tornCopy, lateMatch>>
    /\ UNCHANGED notQ

QStep(t) ==
    \/ SelectRow(t)
    \/ UpdateRow(t)
    \/ WriteCol(t)
    \/ LockCsv(t)
    \/ Wait(t)
    \/ Reacquire(t)
    \/ Notify(t)

NextQuery ==
    \E t \in Threads :
        \/ CallSelect(t)
        \/ CallUpdate(t)
        \/ QStep(t)
        \/ Crash(t)
        \/ SpuriousWake(t)

\* ------------------------------------------------------------------------
\* The connection scheduler: runServer, and the end of serveClient
\* ------------------------------------------------------------------------

SInit ==
    /\ maxThr = 0
    /\ numThreads = 0
    /\ serverMutex = FALSE
    /\ sPc = "init"
    /\ accepted = 0
    /\ wPc = [c \in Conns |-> "none"]
    /\ regS = 0
    /\ regW = [c \in Conns |-> 0]
    /\ lateNotify = "no"
    /\ raced = FALSE

\* runServer(server, maxThr) is called.
RunServer ==
    /\ sPc = "init"
    /\ \E m \in 1..MaxThrArg : maxThr' = m
    /\ sPc' = "accept"
    /\ UNCHANGED <<numThreads, serverMutex, accepted, wPc, regS, regW, lateNotify, raced>>
    /\ UNCHANGED notS

\* server.accept returns a client; serverMutex is locked.
Accept ==
    /\ sPc = "accept"
    /\ accepted < MaxConn
    /\ accepted' = accepted + 1
    /\ serverMutex' = TRUE
    /\ sPc' = "check"
    /\ UNCHANGED <<maxThr, numThreads, wPc, regS, regW, lateNotify, raced>>
    /\ UNCHANGED notS

\* The predicate of thrCond.wait: numThreads < maxThr.
SlotFree == numThreads < maxThr

\* thrCond.wait(lock, pred) evaluates the predicate, holding serverMutex.
CheckSlot ==
    /\ sPc = "check"
    /\ sPc' = IF SlotFree THEN "dispatch" ELSE "towait"
    /\ lateNotify' = "no"
    /\ UNCHANGED <<maxThr, numThreads, serverMutex, accepted, wPc, regS, regW, raced>>
    /\ UNCHANGED notS

\* The predicate was false: wait(lock) releases serverMutex and suspends.
BlockSched ==
    /\ sPc = "towait"
    /\ sPc' = "blocked"
    /\ serverMutex' = FALSE
    /\ UNCHANGED <<maxThr, numThreads, accepted, wPc, regS, regW, lateNotify, raced>>
    /\ UNCHANGED notS

\* A spurious wake-up of thrCond.wait.
SpuriousSched ==
    /\ sPc = "blocked"
    /\ sPc' = "woken"
    /\ UNCHANGED <<maxThr, numThreads, serverMutex, accepted, wPc, regS, regW, lateNotify, raced>>
    /\ UNCHANGED notS

\* The woken scheduler re-acquires serverMutex and evaluates the predicate again.
WakeSched ==
    /\ sPc = "woken"
    /\ serverMutex' = TRUE
    /\ sPc' = "check"
    /\ UNCHANGED <<maxThr, numThreads, accepted, wPc, regS, regW, lateNotify, raced>>
    /\ UNCHANGED notS

\* std::thread thr(...serveClient...); thr.detach().
Dispatch ==
    /\ sPc = "dispatch"
    /\ wPc' = [wPc EXCEPT ![accepted] = "serve"]
    /\ sPc' = "incr"
    /\ UNCHANGED <<maxThr, numThreads, serverMutex, accepted, regS, regW, lateNotify, raced>>
    /\ UNCHANGED notS

\* numThreads++ in runServer: the load.
IncrRead ==
    /\ sPc = "incr"
    /\ regS' = numThreads
    /\ sPc' = "incrw"
    /\ UNCHANGED <<maxThr, numThreads, serverMutex, accepted, wPc, regW, lateNotify, raced>>
    /\ UNCHANGED notS

\* numThreads++ in runServer: the store; the iteration ends, serverMutex is
\* released.
IncrWrite ==
    /\ sPc = "incrw"
    /\ numThreads' = regS + 1
    /\ raced' = (raced \/ regS # numThreads)
    /\ serverMutex' = FALSE
    /\ sPc' = "accept"
    /\ UNCHANGED <<maxThr, accepted, wPc, regS, regW, lateNotify>>
    /\ UNCHANGED notS

\* serveClient has served its request; numThreads--: the load.
DecrRead(c) ==
    /\ wPc[c] = "serve"
    /\ regW' = [regW EXCEPT ![c] = numThreads]
    /\ wPc' = [wPc EXCEPT ![c] = "decw"]
    /\ UNCHANGED <<maxThr, numThreads, serverMutex, sPc, accepted, regS, lateNotify, raced>>
    /\ UNCHANGED notS

\* numThreads-- in serveClient: the store.
DecrWrite(c) ==
    /\ wPc[c] = "decw"
    /\ numThreads' = regW[c] - 1
    /\ raced' = (raced \/ regW[c] # numThreads)
    /\ lateNotify' = IF sPc \in {"towait", "blocked"} /\ lateNotify = "no"
                     THEN "decr" ELSE lateNotify
    /\ wPc' = [wPc EXCEPT ![c] = "notify"]
    /\ UNCHANGED <<maxThr, serverMutex, sPc, accepted, regS, regW>>
    /\ UNCHANGED notS

\* thrCond.notify_one() in serveClient: wakes the scheduler if it is suspended.
NotifyOne(c) ==
    /\ wPc[c] = "notify"
    /\ sPc' = IF sPc = "blocked" THEN "woken" ELSE sPc
    /\ wPc' = [wPc EXCEPT ![c] = "gone"]
    /\ lateNotify' = IF sPc \in {"towait", "blocked"} /\ lateNotify = "decr"
                     THEN "notified" ELSE lateNotify
    /\ UNCHANGED <<maxThr, numThreads, serverMutex, accepted, regS, regW, raced>>
    /\ UNCHANGED notS

SchedStep ==
    \/ CheckSlot
    \/ BlockSched
    \/ WakeSched
    \/ Dispatch
    \/ IncrRead
    \/ IncrWrite

WorkerStep(c) ==
    \/ DecrRead(c)
    \/ DecrWrite(c)
    \/ NotifyOne(c)

NextServer ==
    \/ RunServer
    \/ Accept
    \/ SchedStep
    \/ SpuriousSched
    \/ \E c \in Conns : WorkerStep(c)

\* ------------------------------------------------------------------------
\* The table registry: loadAndGet, saveQuery
\* ------------------------------------------------------------------------

RInit ==
    /\ inMemoryCSV = [id \in LoadArgs |-> "absent"]
    /\ recentCSV = ""
    /\ recentCSVMutex = NoThread
    /\ disk = [id \in LoadArgs |-> "d0"]
    /\ lPc = [t \in Threads |-> "idle"]
    /\ fileOrURL = [t \in Threads |-> ""]
    /\ csvLocal = [t \in Threads |-> "d0"]
    /\ calledWith = [t \in Threads |-> ""]
    /\ loadFailed = {}

\* A registry that also remembers the identifiers whose load has failed.
ResidentOrFailed(id) == inMemoryCSV[id] # "absent" \/ id \in loadFailed

\* inMemoryCSV.find(fileOrURL) != inMemoryCSV.end()
Resident(id) == inMemoryCSV[id] # "absent"

\* An identifier taken as it was given.
ResolveVerbatim(arg) == arg

\* fileOrURL = (fileOrURL.empty() ? recentCSV : fileOrURL)
Resolve(arg) == IF arg = "" THEN recentCSV ELSE arg

\* A guard that is kept when the table was not found.
GuardKeptOnMiss(t, f) == IF Resident(f) THEN NoThread ELSE t

\* The guard of the first block goes out of scope, at the return inside the
\* block or at the block's end: recentCSVMutex is free after it.
AfterFirstBlock(t, f) == NoThread

\* loadAndGet(fileOrURL) is called.
LoadAndGet(t) ==
    /\ lPc[t] = "idle"
    /\ \E arg \in LoadArgs :
         /\ fileOrURL' = [fileOrURL EXCEPT ![t] = arg]
         /\ calledWith' = [calledWith EXCEPT ![t] = arg]
    /\ lPc' = [lPc EXCEPT ![t] = "lock1"]
    /\ UNCHANGED <<inMemoryCSV, recentCSV, recentCSVMutex, disk, csvLocal, loadFailed>>
    /\ UNCHANGED notR

\* std::scoped_lock guard(recentCSVMutex) of the first block.
LockFind(t) ==
    /\ lPc[t] = "lock1"
    /\ recentCSVMutex = NoThread
    /\ recentCSVMutex' = t
    /\ lPc' = [lPc EXCEPT ![t] = "find"]
    /\ UNCHANGED <<inMemoryCSV, recentCSV, disk, fileOrURL, csvLocal, calledWith,
                   loadFailed>>
    /\ UNCHANGED notR

\* The first block: resolve the empty identifier, record the identifier as the
\* most recent, return the resident table or go on to load; the guard is released.
Find(t) ==
    /\ lPc[t] = "find"
    /\ LET f == Resolve(fileOrURL[t])
       IN /\ fileOrURL' = [fileOrURL EXCEPT ![t] = f]
          /\ recentCSV' = f
          /\ lPc' = [lPc EXCEPT ![t] = IF Resident(f) THEN "have" ELSE "load"]
          /\ recentCSVMutex' = AfterFirstBlock(t, f)
    /\ UNCHANGED <<inMemoryCSV, disk, csvLocal, calledWith, loadFailed>>
    /\ UNCHANGED notR

\* csv.load(data), from the file or the URL, outside the critical sections.
Load(t) ==
    /\ lPc[t] = "load"
    /\ csvLocal' = [csvLocal EXCEPT ![t] = disk[fileOrURL[t]]]
    /\ lPc' = [lPc EXCEPT ![t] = "pub"]
    /\ UNCHANGED <<inMemoryCSV, recentCSV, recentCSVMutex, disk, fileOrURL,
                   calledWith, loadFailed>>
    /\ UNCHANGED notR

\* The load throws (setupDownload or csv.load): loadAndGet is left.
LoadFails(t) ==
    /\ lPc[t] = "load"
    /\ lPc' = [lPc EXCEPT ![t] = "idle"]
    /\ loadFailed' = loadFailed \cup {fileOrURL[t]}
    /\ UNCHANGED <<inMemoryCSV, recentCSV, recentCSVMutex, disk, fileOrURL, csvLocal,
                   calledWith>>
    /\ UNCHANGED notR

\* std::scoped_lock guard(recentCSVMutex) before the insert.
LockPublish(t) ==
    /\ lPc[t] = "pub"
    /\ recentCSVMutex = NoThread
    /\ recentCSVMutex' = t
    /\ lPc' = [lPc EXCEPT ![t] = "publish"]
    /\ UNCHANGED <<inMemoryCSV, recentCSV, disk, fileOrURL, csvLocal, calledWith,
                   loadFailed>>
    /\ UNCHANGED notR

\* inMemoryCSV[fileOrURL].move(csv): the entry, new or not, takes the loaded
\* contents.
MoveInto(id, csv) == [inMemoryCSV EXCEPT ![id] = csv]

\* The insert, the return of the reference, the release of the guard.
Publish(t) ==
    /\ lPc[t] = "publish"
    /\ inMemoryCSV' = MoveInto(fileOrURL[t], csvLocal[t])
    /\ recentCSVMutex' = NoThread
    /\ lPc' = [lPc EXCEPT ![t] = "have"]
    /\ loadFailed' = loadFailed \ {fileOrURL[t]}
    /\ UNCHANGED <<recentCSV, disk, fileOrURL, csvLocal, calledWith>>
    /\ UNCHANGED notR

\* The caller runs selectQuery on the table loadAndGet returned.
SelectTable(t) ==
    /\ lPc[t] = "have"
    /\ lPc' = [lPc EXCEPT ![t] = "idle"]
    /\ UNCHANGED <<inMemoryCSV, recentCSV, recentCSVMutex, disk, fileOrURL, csvLocal,
                   calledWith, loadFailed>>
    /\ UNCHANGED notR

\* The caller runs updateQuery on the table loadAndGet returned: its rows change
\* (a table without rows has none to change).
UpdateTable(t) ==
    /\ lPc[t] = "have"
    /\ inMemoryCSV[fileOrURL[t]] # Truncated
    /\ \E d \in Data \ {inMemoryCSV[fileOrURL[t]]} :
         inMemoryCSV' = [inMemoryCSV EXCEPT ![fileOrURL[t]] = d]
    /\ lPc' = [lPc EXCEPT ![t] = "idle"]
    /\ UNCHANGED <<recentCSV, recentCSVMutex, disk, fileOrURL, csvLocal, calledWith,
                   loadFailed>>
    /\ UNCHANGED notR

\* The ways saveQuery ends: the exception of its check, "... saved.", the
\* exception of inMemoryCSV.at.
SaveOutcomes == {"refused", "saved", "nosuch"}

\* A check that refuses only the empty identifier.
SaveRefusedIfEmpty == recentCSV = ""

\* recentCSV.empty() || recentCSV.find("http://") == 0
SaveRefused == recentCSV = "" \/ recentCSV \in RemoteIds

\* saveQuery, which takes no lock: refused for an empty or remote recentCSV;
\* else the file is opened for writing (and so truncated) and the table, if
\* resident, written to it (inMemoryCSV.at throws if it is not).
SaveQuery(t) ==
    /\ lPc[t] = "idle"
    /\ IF SaveRefused
       THEN /\ disk' = disk
            /\ lPc' = [lPc EXCEPT ![t] = "refused"]
       ELSE IF Resident(recentCSV)
       THEN /\ disk' = [disk EXCEPT ![recentCSV] = inMemoryCSV[recentCSV]]
            /\ lPc' = [lPc EXCEPT ![t] = "saved"]
       ELSE /\ disk' = [disk EXCEPT ![recentCSV] = Truncated]
            /\ lPc' = [lPc EXCEPT ![t] = "nosuch"]
    /\ UNCHANGED <<inMemoryCSV, recentCSV, recentCSVMutex, fileOrURL, csvLocal,
                   calledWith, loadFailed>>
    /\ UNCHANGED notR

\* The response of the save request is sent; the thread takes its next request.
SaveReturn(t) ==
    /\ lPc[t] \in SaveOutcomes
    /\ lPc' = [lPc EXCEPT ![t] = "idle"]
    /\ UNCHANGED <<inMemoryCSV, recentCSV, recentCSVMutex, disk, fileOrURL, csvLocal,
                   calledWith, loadFailed>>
    /\ UNCHANGED notR

NextRegistry ==
    \E t \in Threads :
        \/ LoadAndGet(t)
        \/ LockFind(t)
        \/ Find(t)
        \/ Load(t)
        \/ LoadFails(t)
        \/ LockPublish(t)
        \/ Publish(t)
        \/ SelectTable(t)
        \/ UpdateTable(t)
        \/ SaveQuery(t)
        \/ SaveReturn(t)

\* ------------------------------------------------------------------------
\* Workers that serve wait-mode queries
\* ------------------------------------------------------------------------

\* The workers suspended in csvCondVar.wait.
Suspended == {c \in Conns : wPc[c] = "qwait"}

\* The request of worker c is a wait-mode query whose scan counted no row: the
\* worker is suspended in csvCondVar.wait, inside process(), before its
\* numThreads--.
QueryWait(c) ==
    /\ wPc[c] = "serve"
    /\ wPc' = [wPc EXCEPT ![c] = "qwait"]
    /\ UNCHANGED <<maxThr, numThreads, serverMutex, sPc, accepted, regS, regW,
                   lateNotify, raced>>
    /\ UNCHANGED notS

\* The request of worker c is an update that counted rows: its notify_all
\* wakes the suspended workers, which scan again (and then return or wait
\* again); the update returns.
NotifyWaiters(c) ==
    /\ wPc[c] = "serve"
    /\ Suspended # {}
    /\ wPc' = [w \in Conns |-> IF w \in Suspended THEN "serve" ELSE wPc[w]]
    /\ UNCHANGED <<maxThr, numThreads, serverMutex, sPc, accepted, regS, regW,
                   lateNotify, raced>>
    /\ UNCHANGED notS

NextAdmission ==
    \/ NextServer
    \/ \E c \in Conns : QueryWait(c) \/ NotifyWaiters(c)

Init == QInit /\ SInit /\ RInit

SpecServer == Init /\ [][NextServer]_vars

SpecRegistry == Init /\ [][NextRegistry]_vars

SpecAdmission == Init /\ [][NextAdmission]_vars

\* The scheduler thread and the worker threads are scheduled; connections and
\* spurious wake-ups are not promised.
FairSpecServer ==
    SpecServer /\ WF_vars(SchedStep) /\ \A c \in Conns : WF_vars(WorkerStep(c))

\* The threads dispatched that have not yet decremented numThreads.
ActiveWorkers == {c \in Conns : wPc[c] \in {"serve", "qwait", "decw"}}

\* C4: at most maxThr dispatched workers have not yet decremented numThreads,
\* and no connection is dispatched while numThreads >= maxThr.
C4_AdmissionCap ==
    /\ sPc # "init" => Cardinality(ActiveWorkers) <= maxThr
    /\ sPc = "dispatch" => numThreads < maxThr

\* C5: a scheduler waiting for a slot wakes once a worker has decremented
\* numThreads and called notify_one (in runs where no store to numThreads was
\* lost, too).
C5_AdmissionLive ==
    (sPc \in {"towait", "blocked"} /\ lateNotify = "notified" /\ ~raced)
        ~> (sPc \notin {"towait", "blocked"})

SpecQuery == Init /\ [][NextQuery]_vars

\* The threads of a running process are scheduled: a step a thread can take is
\* eventually taken. Spurious wake-ups and new requests are not promised.
FairSpecQuery == SpecQuery /\ \A t \in Threads : SF_vars(QStep(t))

\* C1: a wait-mode select whose first scan matched nothing, and for which an
\* update has since made a row match, eventually returns with that row
\* (unless the row stops matching).
C1_SelectReleased ==
    \A t \in Threads :
        (args[t].op = "select" /\ InWaitLoop(t) /\ lateMatch[t]
            /\ SomeRowMatches(rows, t))
        ~> (\/ pc[t] = "done" /\ os[t].count >= 1
            \/ ~SomeRowMatches(rows, t)
            \/ ~alive)

C3_WaitNeverEmpty ==
    \A t \in Threads :
        (pc[t] = "done" /\ args[t].mustWait) => os[t].count >= 1

\* A wait-mode query has returned after going through the wait loop.
C3_Witness ==
    \E t \in Threads :
        /\ pc[t] = "done" /\ args[t].mustWait /\ lateMatch[t]
        /\ os[t].kind = "rows" /\ os[t].count >= 1

ArityMismatch(t) ==
    args[t].op = "update" /\ Len(args[t].values) # Len(args[t].colNames)

\* The column list of thread t's update names a column the table has not.
UnknownColumn(t) ==
    /\ args[t].op = "update"
    /\ \E k \in 1..Len(args[t].colNames) : getColumnIndex(args[t].colNames[k]) = -1

\* C9: an update whose values list and column list differ in length (its
\* columns all known) changes no field of any row and does not report rows as
\* updated.
C9_ArityMismatchAtomic ==
    [][\A t \in Threads :
         (ArityMismatch(t) /\ ~UnknownColumn(t)) =>
            /\ (wi'[t] # wi[t] => rows' = rows)
            /\ pc'[t] \notin {"notify", "done"}
      ]_vars

\* C10: an update whose column list names an unknown column (its values as
\* many as its columns) changes no field of any row.
C10_UnknownColumnAtomic ==
    [][\A t \in Threads :
         (UnknownColumn(t) /\ ~ArityMismatch(t) /\ wi'[t] # wi[t]) => rows' = rows
      ]_vars

\* A thread is between the first release of recentCSVMutex and its insert.
Loading(t) == lPc[t] \in {"load", "pub", "publish"}

\* C6: the contents of a resident table are never replaced by loadAndGet's
\* insert.
C6_ResidentNotReplaced ==
    [][\A t \in Threads :
         (lPc[t] = "publish" /\ lPc'[t] = "have") =>
            \A id \in LoadArgs : Resident(id) => inMemoryCSV'[id] = inMemoryCSV[id]
      ]_vars

\* C7: for every identifier at most one thread is loading it.
C7_SingleFlight ==
    \A id \in LoadArgs :
        Cardinality({t \in Threads : Loading(t) /\ fileOrURL[t] = id}) <= 1

\* C11: a load that throws inserts nothing and changes no resident table, and
\* the first block of a later loadAndGet sends the call to the load step
\* again as long as the identifier is not in inMemoryCSV.
C11_LoadFailureUnresident ==
    [][\A t \in Threads :
         /\ (lPc[t] = "load" /\ lPc'[t] = "idle") => inMemoryCSV' = inMemoryCSV
         /\ (lPc[t] = "find" /\ lPc'[t] # "find") =>
               (lPc'[t] = "load" <=> inMemoryCSV[fileOrURL'[t]] = "absent")
      ]_vars

\* A load of an identifier failed, and a later call is loading it again.
C11_Witness ==
    \E t \in Threads :
        /\ lPc[t] = "load"
        /\ fileOrURL[t] \in loadFailed
        /\ inMemoryCSV[fileOrURL[t]] = "absent"

\* C12: the first block of loadAndGet resolves an empty identifier to the
\* recentCSV that the preceding call recorded, records the identifier it
\* resolved in recentCSV, and nothing else (a failing load, the insert,
\* saveQuery) changes recentCSV.
C12_MostRecent ==
    [][/\ \A t \in Threads :
            (lPc[t] = "find" /\ lPc'[t] # "find") =>
               /\ fileOrURL'[t] = (IF calledWith[t] = "" THEN recentCSV ELSE calledWith[t])
               /\ recentCSV' = fileOrURL'[t]
       /\ recentCSV' # recentCSV =>
            \E t \in Threads : lPc[t] = "find" /\ lPc'[t] # "find"
      ]_vars

\* A call with the empty identifier got the table another call had named.
C12_Witness ==
    \E t \in Threads :
        /\ calledWith[t] = "" /\ lPc[t] = "have"
        /\ fileOrURL[t] # "" /\ recentCSV = fileOrURL[t]

\* The rows of the table as loaded that a query with arguments a is to take:
\* all of them without a predicate, else those whose column whereColIdx
\* satisfies it.
MatchSet(a) ==
    {r \in Rows : a.whereColIdx = -1
                  \/ matches(InitRows[r][a.whereColIdx + 1], a.cond, a.value)}

\* The rows of MatchSet(a), in the order of the table.
MatchSeq(a) == SelectSeq([r \in 1..NumRows |-> r], LAMBDA r : r \in MatchSet(a))

\* No thread but t runs an update.
NoOtherWriter(t) == \A s \in Threads \ {t} : args[s].op # "update"

\* C13: without a concurrent writer, a query that has returned reports as its
\* count the number of rows of its match set; a select has written one line
\* for each of them, in order, and left the table alone; an update has stored
\* its values in the named columns of exactly those rows.
C13_MatchSet ==
    \A t \in Threads :
        (pc[t] = "done" /\ NoOtherWriter(t)) =>
            LET a == args[t]
            IN /\ os[t].count = Cardinality(MatchSet(a))
               /\ a.op = "select" =>
                    /\ rows = InitRows
                    /\ os[t].lines =
                         [i \in 1..Len(MatchSeq(a)) |->
                            [k \in 1..Len(a.colNames) |->
                               InitRows[MatchSeq(a)[i]][getColumnIndex(a.colNames[k]) + 1]]]
               /\ a.op = "update" =>
                    \A r \in Rows, c \in 1..NumCols :
                        IF r \in MatchSet(a)
                           /\ \E k \in 1..Len(a.colNames) : a.colNames[k] = ColumnNames[c]
                        THEN \A k \in 1..Len(a.colNames) :
                                (a.colNames[k] = ColumnNames[c] /\ k <= Len(a.values))
                                    => rows[r][c] = a.values[k]
                        ELSE rows[r][c] = InitRows[r][c]

\* An update with a predicate has returned having taken one row of two, next
\* to a select that took one row of two.
C13_Witness ==
    \E t, s \in Threads :
        /\ t # s /\ pc[t] = "done" /\ pc[s] = "done"
        /\ args[t].op = "update" /\ args[t].whereColIdx # -1 /\ os[t].count = 1
        /\ args[s].op = "select" /\ args[s].whereColIdx # -1 /\ os[s].count = 1

\* C14: a saveQuery called while recentCSV is empty or names a remote source
\* ends with the error and leaves recentCSV, inMemoryCSV and the files alone.
C14_SaveRestricted ==
    [][\A t \in Threads :
         (/\ lPc[t] = "idle" /\ lPc'[t] \in SaveOutcomes
          /\ (recentCSV = "" \/ recentCSV \in RemoteIds)) =>
            /\ lPc'[t] = "refused"
            /\ recentCSV' = recentCSV
            /\ inMemoryCSV' = inMemoryCSV
            /\ disk' = disk
      ]_vars

\* A save was refused while the most recent table, a remote one, is resident
\* and has been updated since it was loaded.
C14_Witness ==
    \E t \in Threads :
        /\ lPc[t] = "refused"
        /\ recentCSV \in RemoteIds
        /\ inMemoryCSV[recentCSV] \in Data \ {disk[recentCSV]}

\* Thread t runs "update age = b where age = a" (waiting or not).
SetAgeWhereAge(t) ==
    /\ args[t].op = "update"
    /\ args[t].colNames = <<"age">> /\ args[t].values = <<"b">>
    /\ args[t].whereColIdx = 1 /\ args[t].cond = "=" /\ args[t].value = "a"

\* C15: a thread in the column loop owns the mutex of the row it writes, the
\* row still satisfies its predicate when the first write is due, and two
\* updates "set age = b where age = a" that have both returned have together
\* counted each row that had age = a once.
C15_TestAndWriteAtomic ==
    /\ \A t \in Threads :
         pc[t] = "write" =>
            /\ rowMutex[idx[t]] = t
            /\ wi[t] = 1 => RowMatches(rows[idx[t]], args[t])
    /\ \A t, s \in Threads :
         (t # s /\ SetAgeWhereAge(t) /\ SetAgeWhereAge(s)
              /\ pc[t] = "done" /\ pc[s] = "done") =>
            os[t].count + os[s].count = Cardinality({r \in Rows : InitRows[r][2] = "a"})

\* Two such updates have returned, each having counted a row.
C15_Witness ==
    \E t, s \in Threads :
        /\ t # s /\ SetAgeWhereAge(t) /\ SetAgeWhereAge(s)
        /\ pc[t] = "done" /\ pc[s] = "done"
        /\ os[t].count >= 1 /\ os[s].count >= 1

\* C16: recentCSVMutex is owned only by a thread inside one of the two
\* critical sections of loadAndGet, never by one that is loading; so a thread
\* that comes to the first block while another is loading can take the mutex,
\* unless a thread inside a critical section has it.
C16_LoadOutsideLock ==
    /\ \A t \in Threads : recentCSVMutex = t <=> lPc[t] \in {"find", "publish"}
    /\ \A t, s \in Threads :
         (lPc[t] \in {"load", "pub"} /\ lPc[s] = "lock1") =>
            \/ ENABLED LockFind(s)
            \/ \E u \in Threads \ {t, s} : lPc[u] \in {"find", "publish"}

\* While one thread is loading an identifier, another has looked up a
\* different, resident one after it and got the table.
C16_Witness ==
    \E t, s \in Threads :
        /\ lPc[t] = "load" /\ lPc[s] = "have"
        /\ fileOrURL[t] # fileOrURL[s]
        /\ recentCSV = fileOrURL[s]
        /\ recentCSVMutex = NoThread

\* serveClient takes no lock before numThreads--: serverMutex is a local
\* variable of runServer, which no other function can name.
WorkerHoldsServerMutex(c) == FALSE

\* C17: every store to numThreads, that of runServer's increment and that of
\* a worker's decrement, is made by a thread that holds serverMutex.
C17_CounterUnderLock ==
    [][/\ (sPc = "incrw" /\ sPc' # "incrw") => serverMutex
       /\ \A c \in Conns :
            (wPc[c] = "decw" /\ wPc'[c] # "decw") => WorkerHoldsServerMutex(c)
      ]_vars

\* The step thread t takes reads or writes inMemoryCSV or recentCSV: the first
\* block of loadAndGet, its insert, or saveQuery.
TouchesRegistry(t) ==
    \/ lPc[t] = "find" /\ lPc'[t] # "find"
    \/ lPc[t] = "publish" /\ lPc'[t] # "publish"
    \/ lPc[t] = "idle" /\ lPc'[t] \in SaveOutcomes

\* C18: a thread reads or writes inMemoryCSV and recentCSV only while no other
\* thread is inside a critical section of loadAndGet (as it would be if every
\* access were made owning recentCSVMutex).
C18_NoConcurrentAccess ==
    [][\A t \in Threads :
         TouchesRegistry(t) => \A s \in Threads \ {t} : lPc[s] \notin {"find", "publish"}
      ]_vars

\* The row mutexes thread t owns.
HeldRows(t) == {r \in Rows : rowMutex[r] = t}

\* The thread that owns the mutex thread t is blocked on, NoThread if t is
\* not blocked: a scan is about to lock the mutex of its row, the wait loop
\* (and wait() on its way out) to lock csvMutex.
WaitsFor(t) ==
    IF pc[t] = "scan" /\ rowMutex[idx[t]] # NoThread
    THEN rowMutex[idx[t]]
    ELSE IF pc[t] \in {"lockcsv", "reacquire"} /\ csvMutex # NoThread
    THEN csvMutex
    ELSE NoThread

\* C19: a thread owns at most one rowMutex; it owns none when it is about to
\* lock a rowMutex or csvMutex and none while it is suspended in
\* csvCondVar.wait; and no set of threads is such that each is blocked on a
\* mutex owned by a thread of the set.
C19_NoLockCycle ==
    /\ \A t \in Threads :
         /\ Cardinality(HeldRows(t)) <= 1
         /\ pc[t] \in {"scan", "lockcsv", "block", "waiting", "reacquire"}
               => HeldRows(t) = {}
    /\ \A S \in SUBSET Threads :
         S # {} => \E t \in S : WaitsFor(t) \notin S

\* A thread that rescans inside its wait loop owns csvMutex and is blocked on
\* the mutex of a row that an update, which owns nothing else, is writing.
C19_Witness ==
    \E t, s \in Threads :
        /\ t # s
        /\ pc[t] = "write" /\ HeldRows(t) = {idx[t]}
        /\ csvMutex = s /\ WaitsFor(s) = t

\* Every worker that has not decremented numThreads is suspended in a
\* wait-mode query, and there are maxThr of them.
AllSlotsSuspended ==
    /\ sPc # "init"
    /\ ActiveWorkers = Suspended
    /\ Cardinality(Suspended) = maxThr

\* C20: a suspended worker has not decremented numThreads, and once maxThr
\* workers are all suspended no further worker is started and no suspended
\* worker is released.
C20_WaitersKeepSlots ==
    [][AllSlotsSuspended =>
          \A c \in Conns :
              /\ wPc[c] = "qwait" => wPc'[c] = "qwait"
              /\ wPc[c] = "none" => wPc'[c] = "none"
      ]_vars

====
